---- MODULE Spec2Model ----
(***************************************************************************)
(* folly::coro::detail async_closure: one closure from binding its         *)
(* arguments (bind_captures_to_closure) through release of the task        *)
(* (async_closure_wrap_coro), the outer coroutine (async_closure_outer_    *)
(* coro: token propagation, inner task, co_cleanup tasks) to destruction   *)
(* of the stored arguments.                                                *)
(***************************************************************************)
EXTENDS Integers, Sequences, FiniteSets, TLC

\* ---------------------------------------------------------------- bounds
MaxArgs == 3

MaxGateArgs == 2

\* Most tasks that re-emit the result of the task they await.
MaxWrap == 2

\* Most times the caller awaits the outermost task.
MaxAwaits == 2

MaxHooks == 2

MaxPairArgs == 2

MaxLiveArgs == 2

\* ------------------------------------------------- safe_alias (SafeAlias.h)
unsafe == 0

unsafe_closure_internal == 1

shared_cleanup == 2

co_cleanup_safe_ref == 3

after_cleanup_ref == 4

maybe_value == 5

\* The level the specification document lists above maybe_value.  No
\* argument and no closure in the sources measures it, so it is not one of
\* Levels.
value == 6

closure_min_arg_safety == shared_cleanup

Levels == unsafe .. maybe_value

\* ------------------------------------------------------------- sequences
RECURSIVE Reverse(_)
Reverse(s) == IF s = << >> THEN << >> ELSE Reverse(Tail(s)) \o << Head(s) >>

RECURSIVE SeqsUpTo(_, _)
SeqsUpTo(S, n) ==
  IF n = 0 THEN { << >> }
  ELSE LET shorter == SeqsUpTo(S, n - 1)
       IN  shorter \cup { Append(s, x) : s \in { t \in shorter : Len(t) = n - 1 }, x \in S }

Count(s, x) == Cardinality({ i \in DOMAIN s : s[i] = x })

RECURSIVE MinOf(_, _)
MinOf(s, top) ==
  IF s = << >> THEN top
  ELSE LET m == MinOf(Tail(s), top) IN IF Head(s) < m THEN Head(s) ELSE m

Max2(a, b) == IF a >= b THEN a ELSE b

\* lite_tuple::apply hands the tuple's elements to the callable left to right,
\* lite_tuple::reverse_apply right to left.
apply(tup) == tup

reverse_apply(tup) == Reverse(tup)

\* ------------------------------------------------------------- the inputs
\* One binding per argument, as detail/AsyncClosureBindings.h hands it to
\* bind_captures_to_closure:
\*   kind    "outer"   async_closure_outer_stored_arg (stored on the outer coro)
\*           "inner"   async_closure_inner_stored_arg (moved into the inner coro)
\*           "self"    async_closure_scope_self_ref_hack
\*           "pass"    a capture<Ref> passed through
\*           "regular" a non-capture binding
\*   safety  its safe_alias
\*   cleanup the stored type has co_cleanup()
\*   tok     "none": no setParentCancelToken; "ok": has one; "throw": it throws
\*   hook    what co_cleanup() returns: "ok" a noexcept-awaitable void coro,
\*           "throws" the same with a body that fails, "non_void" one with a
\*           result, "not_noexcept" a plain Task<void>
Kinds == { "outer", "inner", "self", "pass", "regular" }

HookKinds == { "ok", "throws", "non_void", "not_noexcept" }

RunBinds ==
  \* stored args with co_cleanup, with or without setParentCancelToken
  [ kind : { "outer" }, safety : { maybe_value }, cleanup : { TRUE },
    tok : { "none", "ok", "throw" }, hook : { "ok" } ]
  \* stored args without either (a plain capture kept on the outer coro)
  \cup [ kind : { "outer" }, safety : { maybe_value }, cleanup : { FALSE },
         tok : { "none" }, hook : { "ok" } ]
  \cup [ kind : { "regular" }, safety : { maybe_value },
         cleanup : { FALSE }, tok : { "none" }, hook : { "ok" } ]
  \cup [ kind : { "inner" }, safety : { maybe_value }, cleanup : { FALSE },
         tok : { "none" }, hook : { "ok" } ]
  \* a capture reference handed down by a parent closure, to an argument
  \* of the parent that has co_cleanup
  \cup [ kind : { "pass" }, safety : { co_cleanup_safe_ref }, cleanup : { TRUE },
         tok : { "none" }, hook : { "ok" } ]

GateBinds ==
  [ kind : Kinds, safety : Levels, cleanup : { FALSE }, tok : { "none" },
    hook : { "ok" } ]

\* Stored args with co_cleanup, of every kind of hook.
HookBinds ==
  [ kind : { "outer" }, safety : { maybe_value }, cleanup : { TRUE },
    tok : { "none" }, hook : HookKinds ]

\* The bindings of one closure as detail/AsyncClosureBindings.h classifies
\* them: once some argument is stored on the outer coro, every owned capture
\* is ("inner" occurs only when the outer coro is elided).
WellClassified(b) ==
  (\E i \in DOMAIN b : b[i].kind = "outer")
    => (\A i \in DOMAIN b : b[i].kind # "inner")

\* What the inner task can end with: a value, or an exception; cancellation is
\* the exception OperationCancelled (Result.h, co_cancelled_t).
Values == { 1, 2 }

Errors == { "E1", "E2" }

OperationCancelled == "OperationCancelled"

NoError == "none"

BUG_co_cleanup_must_not_copy_error == "BUG_co_cleanup_must_not_copy_error"

UsingUninitializedTry == "UsingUninitializedTry"

TokenError == "TokenError"

EmptyTry == [ state |-> "nothing" ]

\* No completion yet.
NoOutcome == [ state |-> "none" ]

TryValue(v, ac) == [ state |-> "value", val |-> v, after_cleanup |-> ac ]

TryException(e) == [ state |-> "exception", ex |-> e ]

InnerOutcomes ==
  { TryValue(v, ac) : v \in Values, ac \in BOOLEAN }
  \cup { TryException(e) : e \in Errors \cup { OperationCancelled } }

\* The bodies of the tasks of AwaitResultTest.cpp: co_return of a value,
\* co_yield co_error(e), co_yield co_cancelled; a yielding body goes on with
\* a statement that must not be reached.  Besides those, bodies that hand
\* co_error an empty exception_wrapper (NoError), and bodies that yield a
\* co_result made from a Try holding an exception_wrapper, empty or not.
Bodies ==
  { [ stmt |-> "co_return", arg |-> v ] : v \in Values }
  \cup { [ stmt |-> "co_error", arg |-> e ] : e \in Errors \cup { NoError } }
  \cup { [ stmt |-> "co_result", arg |-> e ] : e \in { "E1", NoError } }
  \cup { [ stmt |-> "co_cancelled", arg |-> NoError ] }

NoBody == [ stmt |-> "none", arg |-> NoError ]

\* folly::result<T>: a value, an error, or stopped.
ResultValue(v) == [ kind |-> "value", val |-> v ]

ResultError(e) == [ kind |-> "error", ex |-> e ]

ResultStopped == [ kind |-> "stopped" ]

NoResult == [ kind |-> "none" ]

VARIABLES
  binds,        \* the bindings, in declaration order
  cfg,          \* the template parameters of this instantiation
  pc,           \* where the closure is
  hasStorage,   \* storage_ptr is a unique_ptr (TRUE) or nullopt (FALSE)
  inner_err,    \* async_closure_storage::inner_err_
  ctorLog,      \* argument indices in the order their storage was constructed
  dtorLog,      \* argument indices in the order their storage was destroyed
  storageIdx,   \* StorageIs: per argument, its index into the storage tuple
  innerArgs,    \* per argument, what the inner coro was given
  innerState,   \* "none", "created", "running", "done", "destroyed"
  cleanups,     \* reversed_noexcept_cleanups: [arg, errAtMake], in await order
  cleanupPos,   \* number of cleanup tasks already awaited to completion
  cleanupBusy,  \* a cleanup task is being awaited
  cleanupLog,   \* [arg, seen]: hooks that ran, in order, with the error seen
  tokLog,       \* argument indices that received the cancellation token
  res,          \* Try<ResultT> res of the outer coro
  OuterSafety,  \* bind_captures_to_closure's OuterSafety (-1: not computed)
  innerTag,     \* safe_alias the inner task carries inside inner_mover
  taskSafety,   \* safe_alias of the task the closure evaluates to (-1: none)
  flavor,       \* "none", "wrap", "SafeTask", "NowTask", "Task"
  started,      \* the released task was awaited
  outcome,      \* what the awaiting caller got: NoOutcome or a Try
  innerOut,     \* what the inner task completed with: NoOutcome or a Try
  \* a caller that captures a task's completion (AwaitResultTest.cpp)
  body,         \* the statement the innermost task's body ends with
  wraps,        \* number of tasks that re-emit it with co_yield co_result
  rpc,          \* "off", "idle", "body", "capture", "reemit", "done"
  completions,  \* Try each task completed with, innermost first
  captured,     \* the result<T> the last co_await_result gave
  callerThrew,  \* an await rethrew into the awaiting coroutine
  numAwaited,   \* times the innermost body ran
  awaits,       \* top-level awaits completed
  reached,      \* statements executed after a terminating co_yield
  \* a second closure, on another execution context
  other,        \* its state while this one is the one taking steps
  \* the context that awaits the closure
  ctx           \* [blocked: the inner task waits for ever unless cancelled,
                \*  cancelRequested: cancellation was requested]

rvars ==
  << body, wraps, rpc, completions, captured, callerThrew, numAwaited, awaits,
     reached, other, ctx >>

cvars ==
  << binds, cfg, pc, hasStorage, inner_err, ctorLog, dtorLog, storageIdx,
     innerArgs, innerState, cleanups, cleanupPos, cleanupBusy, cleanupLog,
     tokLog, res, OuterSafety, innerTag, taskSafety, flavor, started, outcome,
     innerOut >>

vars == << cvars, rvars >>

Args == 1 .. Len(binds)

OuterStored == { i \in Args : binds[i].kind = "outer" }

HookArgs == { i \in Args : binds[i].kind = "outer" /\ binds[i].cleanup }

Cfgs ==
  [ force_shared_cleanup : BOOLEAN, SetCancelTok : BOOLEAN, kIsDebug : BOOLEAN,
    InnerSafety : { unsafe, unsafe_closure_internal } ]

GateCfgs ==
  [ force_shared_cleanup : BOOLEAN, SetCancelTok : { TRUE }, kIsDebug : { FALSE },
    InnerSafety : Levels ]

InitRest ==
  /\ pc = "bind"
  /\ hasStorage = FALSE
  /\ inner_err = NoError
  /\ ctorLog = << >>
  /\ dtorLog = << >>
  /\ storageIdx = << >>
  /\ innerArgs = << >>
  /\ innerState = "none"
  /\ cleanups = << >>
  /\ cleanupPos = 0
  /\ cleanupBusy = FALSE
  /\ cleanupLog = << >>
  /\ tokLog = << >>
  /\ res = EmptyTry
  /\ OuterSafety = -1
  /\ innerTag = -1
  /\ taskSafety = -1
  /\ flavor = "none"
  /\ started = FALSE
  /\ outcome = NoOutcome
  /\ innerOut = NoOutcome

\* An inner task that ends by itself, and no cancellation requested.
NoContext == [ blocked |-> FALSE, cancelRequested |-> FALSE ]

\* Stored args with co_cleanup, with a setParentCancelToken that may throw.
LiveBinds ==
  [ kind : { "outer" }, safety : { maybe_value }, cleanup : { TRUE },
    tok : { "none", "throw" }, hook : { "ok" } ]

\* There is no second closure.
NoClosure == [ pc |-> "none" ]

\* The state of the closure that is taking steps, as one record.
ClosureState ==
  [ binds |-> binds,
    cfg |-> cfg,
    pc |-> pc,
    hasStorage |-> hasStorage,
    inner_err |-> inner_err,
    ctorLog |-> ctorLog,
    dtorLog |-> dtorLog,
    storageIdx |-> storageIdx,
    innerArgs |-> innerArgs,
    innerState |-> innerState,
    cleanups |-> cleanups,
    cleanupPos |-> cleanupPos,
    cleanupBusy |-> cleanupBusy,
    cleanupLog |-> cleanupLog,
    tokLog |-> tokLog,
    res |-> res,
    OuterSafety |-> OuterSafety,
    innerTag |-> innerTag,
    taskSafety |-> taskSafety,
    flavor |-> flavor,
    started |-> started,
    outcome |-> outcome,
    innerOut |-> innerOut ]

\* A closure before bind_captures_to_closure has done anything (InitRest).
InitialClosure(b, c) ==
  [ binds |-> b,
    cfg |-> c,
    pc |-> "bind",
    hasStorage |-> FALSE,
    inner_err |-> NoError,
    ctorLog |-> << >>,
    dtorLog |-> << >>,
    storageIdx |-> << >>,
    innerArgs |-> << >>,
    innerState |-> "none",
    cleanups |-> << >>,
    cleanupPos |-> 0,
    cleanupBusy |-> FALSE,
    cleanupLog |-> << >>,
    tokLog |-> << >>,
    res |-> EmptyTry,
    OuterSafety |-> -1,
    innerTag |-> -1,
    taskSafety |-> -1,
    flavor |-> "none",
    started |-> FALSE,
    outcome |-> NoOutcome,
    innerOut |-> NoOutcome ]

\* Two closures: stored args with co_cleanup, a safe inner coro.
PairBinds ==
  [ kind : { "outer" }, safety : { maybe_value }, cleanup : { TRUE },
    tok : { "none" }, hook : { "ok" } ]

PairCfgs ==
  { c \in Cfgs : ~ c.force_shared_cleanup /\ c.SetCancelTok /\ ~ c.kIsDebug
                 /\ c.InnerSafety = unsafe_closure_internal }

\* No task completion is being captured.
ResultOff ==
  /\ body = NoBody
  /\ wraps = 0
  /\ rpc = "off"
  /\ completions = << >>
  /\ captured = NoResult
  /\ callerThrew = FALSE
  /\ numAwaited = 0
  /\ awaits = 0
  /\ reached = 0
  /\ other = NoClosure
  /\ ctx = NoContext

Init ==
  /\ binds \in { b \in SeqsUpTo(RunBinds, MaxArgs) : WellClassified(b) }
  /\ cfg \in Cfgs
  /\ InitRest
  /\ ResultOff

InitHooks ==
  /\ binds \in SeqsUpTo(HookBinds, MaxHooks)
  /\ cfg \in { c \in Cfgs : ~ c.force_shared_cleanup /\ c.SetCancelTok
                             /\ ~ c.kIsDebug }
  /\ InitRest
  /\ ResultOff

InitPair ==
  /\ binds \in SeqsUpTo(PairBinds, MaxPairArgs)
  /\ cfg \in PairCfgs
  /\ InitRest
  /\ body = NoBody
  /\ wraps = 0
  /\ rpc = "off"
  /\ completions = << >>
  /\ captured = NoResult
  /\ callerThrew = FALSE
  /\ numAwaited = 0
  /\ awaits = 0
  /\ reached = 0
  /\ other \in { InitialClosure(b, c) :
                    b \in SeqsUpTo(PairBinds, MaxPairArgs), c \in PairCfgs }
  /\ ctx = NoContext

InitLive ==
  /\ binds \in SeqsUpTo(LiveBinds, MaxLiveArgs)
  /\ cfg \in PairCfgs
  /\ InitRest
  /\ body = NoBody
  /\ wraps = 0
  /\ rpc = "off"
  /\ completions = << >>
  /\ captured = NoResult
  /\ callerThrew = FALSE
  /\ numAwaited = 0
  /\ awaits = 0
  /\ reached = 0
  /\ other = NoClosure
  /\ ctx \in [ blocked : BOOLEAN, cancelRequested : { FALSE } ]

InitGate ==
  /\ binds \in { b \in SeqsUpTo(GateBinds, MaxGateArgs) : WellClassified(b) }
  /\ cfg \in GateCfgs
  /\ InitRest
  /\ ResultOff

\* ------------------------------------------- bind_captures_to_closure
\* (1) Collect the args that need storage on the outer coro, in order.
\* Mutant: every capture is stored, a passed capture reference included.
StoredFrom_captures(b, i) ==
  LET IsCapture(k) == k >= i /\ b[k].kind \in { "outer", "pass" }
  IN  SelectSeq([ k \in 1 .. Len(b) |-> k ], IsCapture)

RECURSIVE StoredFrom(_, _)
StoredFrom(b, i) ==
  IF i > Len(b) THEN << >>
  ELSE (IF b[i].kind = "outer" THEN << i >> ELSE << >>) \o StoredFrom(b, i + 1)

StoredArgs(b) == StoredFrom(b, 1)

async_closure_default_inner_err(Debug) ==
  IF Debug THEN BUG_co_cleanup_must_not_copy_error ELSE NoError

\* Mutant: the slots built right to left, as an unordered pack expansion may.
async_closure_storage_reversed(sas) == Reverse(sas)

\* The order in which async_closure_storage's constructor builds the slots
\* of storage_tuple_ from the stored args `sas`: curly braces, left to right.
async_closure_storage(sas) == sas

\* ~async_closure_storage: the slots of lite_tuple::tuple go right to left.
storage_dtor(built) == Reverse(built)

\* Mutant: the running sum includes the current element.
cumsum_including_current(Sum, flags) ==
  LET upto[k \in 0 .. Len(flags)] ==
        IF k = 0 THEN Sum ELSE upto[k - 1] + flags[k]
  IN [ i \in 1 .. Len(flags) |-> upto[i] ]

\* E.g. maps <0, 2, 1, 0, 2> to <0, 2, 3, 3>
RECURSIVE cumsum_except_last(_, _)
cumsum_except_last(Sum, flags) ==
  IF flags = << >> THEN << >>
  ELSE << Sum >> \o cumsum_except_last(Sum + Head(flags), Tail(flags))

IsOuterFlags(b) == [ i \in DOMAIN b |-> IF b[i].kind = "outer" THEN 1 ELSE 0 ]

\* Mutant: a stored argument is moved out of the storage into the inner coro.
async_closure_bind_inner_coro_arg_moved(si, b) ==
  IF b.kind \in { "outer", "inner", "self" } THEN [ how |-> "owned", slot |-> -1 ]
  ELSE IF b.kind = "pass" THEN [ how |-> "passed_ref", slot |-> -1 ]
  ELSE [ how |-> "plain", slot |-> -1 ]

\* What the inner coro gets for one binding; si is its StorageI.
async_closure_bind_inner_coro_arg(si, b) ==
  IF b.kind = "outer" THEN [ how |-> "capture_ref", slot |-> si ]
  ELSE IF b.kind \in { "inner", "self" } THEN [ how |-> "owned", slot |-> -1 ]
  ELSE IF b.kind = "pass" THEN [ how |-> "passed_ref", slot |-> -1 ]
  ELSE [ how |-> "plain", slot |-> -1 ]

\* Mutant: the fold keeps the safest of the arguments' safeties.
least_safe_alias_most(safeties) ==
  IF safeties = << >> THEN maybe_value
  ELSE CHOOSE x \in { safeties[i] : i \in DOMAIN safeties } :
         \A i \in DOMAIN safeties : x >= safeties[i]

\* Mutant: the fold keeps the last argument's safety, not the least.
least_safe_alias_last(safeties) ==
  IF safeties = << >> THEN maybe_value ELSE safeties[Len(safeties)]

\* folly::least_safe_alias over the arguments' safeties; without arguments
\* the closure measures maybe_value (AsyncClosureTest.cpp, checkIsSafe with
\* bound_args{}).
least_safe_alias(safeties) == MinOf(safeties, maybe_value)

ArgSafeties(b) == [ i \in DOMAIN b |-> b[i].safety ]

ComputeOuterSafety(c, b) ==
  IF c.force_shared_cleanup THEN unsafe ELSE least_safe_alias(ArgSafeties(b))

\* Mutant: inner_mover hands the inner task on without withNewSafety.
InnerMoverSafety_raw(inner, outer) == inner

\* The safety the inner task carries once wrapped into inner_mover.
InnerMoverSafety(inner, outer) ==
  IF inner >= unsafe_closure_internal
  THEN Max2(outer, closure_min_arg_safety)
  ELSE inner

\* Mutant: storage is allocated whether or not an argument is stored in it.
bind_storage_always ==
  /\ pc = "bind"
  /\ hasStorage' = TRUE
  /\ inner_err' = async_closure_default_inner_err(cfg.kIsDebug)
  /\ ctorLog' = async_closure_storage(StoredArgs(binds))
  /\ pc' = "stored"
  /\ UNCHANGED << binds, cfg, dtorLog, storageIdx, innerArgs, innerState,
                  cleanups, cleanupPos, cleanupBusy, cleanupLog, tokLog, res,
                  OuterSafety, innerTag, taskSafety, flavor, started, outcome,
                  innerOut >>
  /\ UNCHANGED rvars

bind_storage ==
  /\ pc = "bind"
  /\ LET sas == StoredArgs(binds) IN
       IF sas = << >>
       THEN /\ hasStorage' = FALSE
            /\ UNCHANGED << inner_err, ctorLog >>
       ELSE /\ hasStorage' = TRUE
            /\ inner_err' = async_closure_default_inner_err(cfg.kIsDebug)
            /\ ctorLog' = async_closure_storage(sas)
  /\ pc' = "stored"
  /\ UNCHANGED << binds, cfg, dtorLog, storageIdx, innerArgs, innerState,
                  cleanups, cleanupPos, cleanupBusy, cleanupLog, tokLog, res,
                  OuterSafety, innerTag, taskSafety, flavor, started, outcome,
                  innerOut >>
  /\ UNCHANGED rvars

\* Mutant: calling the inner coroutine function runs its body at once.
make_inner_coro_eager == "running"

\* make_inner_coro(args...) calls the user's coroutine function.  The task
\* it returns is lazy: the body does not run until the task is awaited.
make_inner_coro == "created"

bind_inner_coro ==
  /\ pc = "stored"
  /\ storageIdx' = cumsum_except_last(0, IsOuterFlags(binds))
  /\ innerArgs' =
       [ i \in Args |-> async_closure_bind_inner_coro_arg(storageIdx'[i], binds[i]) ]
  /\ innerState' = make_inner_coro
  /\ OuterSafety' = ComputeOuterSafety(cfg, binds)
  /\ innerTag' = InnerMoverSafety(cfg.InnerSafety, OuterSafety')
  /\ pc' = "inner_made"
  /\ UNCHANGED << binds, cfg, hasStorage, inner_err, ctorLog, dtorLog, cleanups,
                  cleanupPos, cleanupBusy, cleanupLog, tokLog, res, taskSafety,
                  flavor, started, outcome,
                  innerOut >>
  /\ UNCHANGED rvars

\* Mutant: the static_assert only requires a void result.
to_lite_tuple_static_assert_void_only(h) == h # "non_void"

\* to_lite_tuple in async_closure_make_cleanup_tuple:
\* static_assert(noexcept_awaitable_v<T> && is_void_v<semi_await_result_t<T>>)
to_lite_tuple_static_assert(h) == h # "not_noexcept" /\ h # "non_void"

\* Every cleanup tuple of the closure passes the static_assert.
CleanupsWellFormed(b) ==
  \A i \in DOMAIN b :
    (b[i].kind = "outer" /\ b[i].cleanup) => to_lite_tuple_static_assert(b[i].hook)

\* Mutant: co_cleanup is not detected, no argument gets a cleanup task.
async_closure_make_cleanup_tuple_none(b, i, err) == << >>

\* async_closure_make_cleanup_tuple for stored arg i: one task when the
\* arg has co_cleanup, else the empty tuple.  The task keeps the pointer
\* `err`; errAtMake is what the cell holds when the task is made.
async_closure_make_cleanup_tuple(b, i, err) ==
  IF b[i].cleanup THEN << [ arg |-> i, errAtMake |-> err ] >> ELSE << >>

RECURSIVE tuple_cat_cleanups(_, _, _)
tuple_cat_cleanups(b, args, err) ==
  IF args = << >> THEN << >>
  ELSE async_closure_make_cleanup_tuple(b, Head(args), err)
         \o tuple_cat_cleanups(b, Tail(args), err)

\* Mutant: the cleanup tuples merged with apply, in construction order.
async_closure_make_outer_coro_forward(b, stored, err) ==
  apply(tuple_cat_cleanups(b, apply(stored), err))

\* Mutant: no cleanup task is made while the closure is built.
async_closure_make_outer_coro_lazy(b, stored, err) == << >>

\* The pack reversed_noexcept_cleanups that async_closure_make_outer_coro
\* hands to async_closure_outer_coro, in the order it will be awaited.
async_closure_make_outer_coro(b, stored, err) ==
  apply(tuple_cat_cleanups(b, reverse_apply(stored), err))

bind_outer_coro ==
  /\ pc = "inner_made"
  /\ CleanupsWellFormed(binds)
  /\ IF hasStorage
     THEN cleanups' = async_closure_make_outer_coro(binds, ctorLog, inner_err)
     ELSE cleanups' = << >>
  /\ pc' = "outer_made"
  /\ UNCHANGED << binds, cfg, hasStorage, inner_err, ctorLog, dtorLog, storageIdx,
                  innerArgs, innerState, cleanupPos, cleanupBusy, cleanupLog,
                  tokLog, res, OuterSafety, innerTag, taskSafety, flavor,
                  started, outcome,
                  innerOut >>
  /\ UNCHANGED rvars

\* co_cleanup() or the outer coro's frame allocation throws (bad_alloc): the
\* exception leaves bind_captures_to_closure, unwinding storage_ptr and the
\* inner task; nothing was awaited.
bind_outer_coro_throws ==
  /\ pc = "inner_made"
  /\ CleanupsWellFormed(binds)
  /\ hasStorage
  /\ dtorLog' = storage_dtor(ctorLog)
  /\ innerState' = "destroyed"
  /\ pc' = "threw"
  /\ UNCHANGED << binds, cfg, hasStorage, inner_err, ctorLog, storageIdx,
                  innerArgs, cleanups, cleanupPos, cleanupBusy, cleanupLog,
                  tokLog, res, OuterSafety, innerTag, taskSafety, flavor,
                  started, outcome,
                  innerOut >>
  /\ UNCHANGED rvars

\* The static_assert of to_lite_tuple fires: the closure is not built.
bind_outer_coro_rejected ==
  /\ pc = "inner_made"
  /\ ~ CleanupsWellFormed(binds)
  /\ pc' = "ill_formed"
  /\ UNCHANGED << binds, cfg, hasStorage, inner_err, ctorLog, dtorLog, storageIdx,
                  innerArgs, innerState, cleanups, cleanupPos, cleanupBusy,
                  cleanupLog, tokLog, res, OuterSafety, innerTag, taskSafety,
                  flavor, started, outcome,
                  innerOut >>
  /\ UNCHANGED rvars

\* Mutant: the threshold one level too low.
has_safe_args_lax(os) == os >= unsafe_closure_internal

\* async_closure_wrap_coro
has_safe_args(os) == os >= closure_min_arg_safety

is_inner_coro_safe(is) == is >= unsafe_closure_internal

is_safe(os, is) == has_safe_args(os) /\ is_inner_coro_safe(is)

\* The task that outer_mover yields: the outer coro, or the inner task itself.
MovedTaskSafety ==
  IF hasStorage THEN OuterSafety ELSE innerTag

\* Mutant: the NowTask measures the safety of the task it was made from.
safe_alias_for_NowTask_of_inner(inner) == inner

\* safe_alias_for<NowTask<T>> : safe_alias_constant<safe_alias::unsafe>
safe_alias_for_NowTask(inner) == unsafe

\* Mutant: the run-now closure goes through async_closure_wrap_coro too.
bind_return_gated ==
  /\ pc = "outer_made"
  /\ flavor' = "wrap"
  /\ pc' = "wrapped"
  /\ UNCHANGED << binds, cfg, hasStorage, inner_err, ctorLog, dtorLog, storageIdx,
                  innerArgs, innerState, cleanups, cleanupPos, cleanupBusy,
                  cleanupLog, tokLog, res, OuterSafety, innerTag, taskSafety,
                  started, outcome, innerOut >>
  /\ UNCHANGED rvars

bind_return ==
  /\ pc = "outer_made"
  /\ IF cfg.force_shared_cleanup
     THEN /\ flavor' = "NowTask"     \* toNowTask(outer_mover())
          /\ taskSafety' = safe_alias_for_NowTask(MovedTaskSafety)
          /\ pc' = "released"
     ELSE /\ flavor' = "wrap"
          /\ taskSafety' = taskSafety
          /\ pc' = "wrapped"
  /\ UNCHANGED << binds, cfg, hasStorage, inner_err, ctorLog, dtorLog, storageIdx,
                  innerArgs, innerState, cleanups, cleanupPos, cleanupBusy,
                  cleanupLog, tokLog, res, OuterSafety, innerTag, started,
                  outcome,
                  innerOut >>
  /\ UNCHANGED rvars

release_outer_coro ==
  /\ pc = "wrapped"
  /\ is_safe(OuterSafety, cfg.InnerSafety)
  /\ flavor' = "SafeTask"
  /\ taskSafety' = MovedTaskSafety
  /\ pc' = "released"
  /\ UNCHANGED << binds, cfg, hasStorage, inner_err, ctorLog, dtorLog, storageIdx,
                  innerArgs, innerState, cleanups, cleanupPos, cleanupBusy,
                  cleanupLog, tokLog, res, OuterSafety, innerTag, started,
                  outcome,
                  innerOut >>
  /\ UNCHANGED rvars

\* The static_asserts of release_outer_coro fire: no task is released.
release_outer_coro_rejected ==
  /\ pc = "wrapped"
  /\ ~ is_safe(OuterSafety, cfg.InnerSafety)
  /\ pc' = "rejected"
  /\ UNCHANGED << binds, cfg, hasStorage, inner_err, ctorLog, dtorLog, storageIdx,
                  innerArgs, innerState, cleanups, cleanupPos, cleanupBusy,
                  cleanupLog, tokLog, res, OuterSafety, innerTag, taskSafety,
                  flavor, started, outcome,
                  innerOut >>
  /\ UNCHANGED rvars

NextGate ==
  \/ bind_storage
  \/ bind_inner_coro
  \/ bind_outer_coro
  \/ bind_outer_coro_throws
  \/ bind_return
  \/ release_outer_coro
  \/ release_outer_coro_rejected

SpecGate == InitGate /\ [][NextGate]_vars

\* ------------------------------------------------ the released task
\* Mutant: dropping the unawaited task leaves the storage alive.
discard_leaks ==
  /\ pc \in { "wrapped", "released" }
  /\ ~ started
  /\ innerState' = "destroyed"
  /\ pc' = "discarded"
  /\ UNCHANGED << binds, cfg, hasStorage, inner_err, ctorLog, dtorLog,
                  storageIdx,
                  innerArgs, cleanups, cleanupPos, cleanupBusy, cleanupLog,
                  tokLog, res, OuterSafety, innerTag, taskSafety, flavor,
                  started, outcome,
                  innerOut >>
  /\ UNCHANGED rvars

\* The task (or the wrapper holding it) is dropped without being awaited: the
\* coroutine frame goes, and with it storage_ptr and the unawaited tasks.
discard ==
  /\ pc \in { "wrapped", "released" }
  /\ ~ started
  /\ dtorLog' = (IF hasStorage THEN storage_dtor(ctorLog) ELSE dtorLog)
  /\ innerState' = "destroyed"
  /\ pc' = "discarded"
  /\ UNCHANGED << binds, cfg, hasStorage, inner_err, ctorLog, storageIdx,
                  innerArgs, cleanups, cleanupPos, cleanupBusy, cleanupLog,
                  tokLog, res, OuterSafety, innerTag, taskSafety, flavor,
                  started, outcome,
                  innerOut >>
  /\ UNCHANGED rvars

\* Without an outer coro the released task is the inner task.
inner_only_begin ==
  /\ pc = "released"
  /\ ~ hasStorage
  /\ started' = TRUE
  /\ innerState' = "running"
  /\ pc' = "inner_running"
  /\ UNCHANGED << binds, cfg, hasStorage, inner_err, ctorLog, dtorLog, storageIdx,
                  innerArgs, cleanups, cleanupPos, cleanupBusy, cleanupLog,
                  tokLog, res, OuterSafety, innerTag, taskSafety, flavor,
                  outcome,
                  innerOut >>
  /\ UNCHANGED rvars

\* -------------------------------------------- async_closure_outer_coro
\* Mutant: the debug sentinel is left in the cell.
ResetInnerErr_missing(Debug, err) == err

\* inner_err.reset() under kIsDebug.
ResetInnerErr(Debug, err) == IF Debug THEN NoError ELSE err

outer_coro_begin ==
  /\ pc = "released"
  /\ hasStorage
  /\ started' = TRUE
  /\ inner_err' = ResetInnerErr(cfg.kIsDebug, inner_err)
  /\ pc' = "propagate"
  /\ UNCHANGED << binds, cfg, hasStorage, ctorLog, dtorLog, storageIdx,
                  innerArgs, innerState, cleanups, cleanupPos, cleanupBusy,
                  cleanupLog, tokLog, res, OuterSafety, innerTag, taskSafety,
                  flavor, outcome,
                  innerOut >>
  /\ UNCHANGED rvars

\* Mutant: the fold goes on after a setParentCancelToken that throws.
TokensFrom_all(b, stored, i) ==
  LET Gets(a) == b[a].tok = "ok"
  IN SelectSeq(SubSeq(stored, i, Len(stored)), Gets)

\* Mutant: only the first stored arg is offered the token.
TokensFrom_first(b, stored, i) ==
  IF i > Len(stored) \/ b[stored[i]].tok # "ok" THEN << >> ELSE << stored[i] >>

\* The fold (async_closure_set_cancel_token(priv, args, ctok), ...) over the
\* stored args from position i on: the args that got the token, up to the
\* first setParentCancelToken that throws.
RECURSIVE TokensFrom(_, _, _)
TokensFrom(b, stored, i) ==
  IF i > Len(stored) THEN << >>
  ELSE LET t == b[stored[i]].tok IN
         IF t = "throw" THEN << >>
         ELSE (IF t = "ok" THEN << stored[i] >> ELSE << >>)
                \o TokensFrom(b, stored, i + 1)

\* try_and_catch around that fold: the exception caught, or none.
try_and_catch(b, stored) ==
  IF \E i \in DOMAIN stored : b[stored[i]].tok = "throw"
  THEN TokenError
  ELSE NoError

\* Mutant: the fold suspends after each delivery.
set_cancel_tokens_stepwise ==
  /\ pc = "propagate"
  /\ IF cfg.SetCancelTok
          /\ Len(tokLog) < Len(TokensFrom(binds, apply(ctorLog), 1))
     THEN /\ tokLog' = SubSeq(TokensFrom(binds, apply(ctorLog), 1), 1,
                              Len(tokLog) + 1)
          /\ UNCHANGED << inner_err, pc >>
     ELSE /\ inner_err' = (IF cfg.SetCancelTok
                           THEN try_and_catch(binds, apply(ctorLog))
                           ELSE inner_err)
          /\ pc' = "await_inner"
          /\ UNCHANGED tokLog
  /\ UNCHANGED << binds, cfg, hasStorage, ctorLog, dtorLog, storageIdx,
                  innerArgs, innerState, cleanups, cleanupPos, cleanupBusy,
                  cleanupLog, res, OuterSafety, innerTag, taskSafety, flavor,
                  started, outcome,
                  innerOut >>
  /\ UNCHANGED rvars

set_cancel_tokens ==
  /\ pc = "propagate"
  /\ IF cfg.SetCancelTok
     THEN /\ tokLog' = TokensFrom(binds, apply(ctorLog), 1)
          /\ inner_err' = try_and_catch(binds, apply(ctorLog))
     ELSE UNCHANGED << tokLog, inner_err >>
  /\ pc' = "await_inner"
  /\ UNCHANGED << binds, cfg, hasStorage, ctorLog, dtorLog, storageIdx,
                  innerArgs, innerState, cleanups, cleanupPos, cleanupBusy,
                  cleanupLog, res, OuterSafety, innerTag, taskSafety, flavor,
                  started, outcome,
                  innerOut >>
  /\ UNCHANGED rvars

\* Mutant: the inner task is awaited whatever inner_err holds.
AwaitsInner_always(err) == TRUE

\* if (!inner_err): whether the inner task is awaited.
AwaitsInner(err) == err = NoError

await_inner ==
  /\ pc = "await_inner"
  /\ IF AwaitsInner(inner_err)
     THEN /\ innerState' = "running"
          /\ pc' = "inner_running"
     ELSE /\ innerState' = innerState
          /\ pc' = "cleanup"
  /\ UNCHANGED << binds, cfg, hasStorage, inner_err, ctorLog, dtorLog, storageIdx,
                  innerArgs, cleanups, cleanupPos, cleanupBusy, cleanupLog,
                  tokLog, res, OuterSafety, innerTag, taskSafety, flavor,
                  started, outcome,
                  innerOut >>
  /\ UNCHANGED rvars

\* Mutant: a cancelled inner task is not treated as an error.
ErrAfterInner_not_cancelled(r, err) ==
  IF r.state = "exception" /\ r.ex # OperationCancelled THEN r.ex ELSE err

\* Mutant: the inner task's exception is not copied into the cell.
ErrAfterInner_keep(r, err) == err

\* inner_err = std::move(res.exception()) leaves res holding an exception
\* whose wrapper is moved-from.
ErrAfterInner(r, err) == IF r.state = "exception" THEN r.ex ELSE err

ResAfterInner(r) == IF r.state = "exception" THEN TryException(NoError) ELSE r

\* Mutant: the inner task is awaited without the cancellation token of the
\* awaiting context.
InnerEndings_no_token(c) == IF c.blocked THEN { } ELSE InnerOutcomes

\* What co_awaitTry(inner_mover()) can complete with: an inner task that
\* waits on something cancellable (simpleCancellation: a semaphore nobody
\* signals) ends only once cancellation is requested, and then as cancelled.
InnerEndings(c) ==
  IF c.blocked
  THEN (IF c.cancelRequested THEN { TryException(OperationCancelled) } ELSE { })
  ELSE InnerOutcomes

inner_done ==
  /\ pc = "inner_running"
  /\ \E r \in InnerEndings(ctx) :
       \* result_after_cleanup needs a cleanup arg, hence an outer coro
       /\ (r.state = "value" /\ r.after_cleanup) => hasStorage
       /\ IF hasStorage
          THEN /\ res' = ResAfterInner(r)
               /\ inner_err' = ErrAfterInner(r, inner_err)
               /\ outcome' = outcome
               /\ pc' = "cleanup"
          ELSE /\ res' = r
               /\ inner_err' = inner_err
               /\ outcome' = r
               /\ pc' = "completed"
       /\ innerOut' = r
  /\ innerState' = "done"
  /\ UNCHANGED << binds, cfg, hasStorage, ctorLog, dtorLog, storageIdx,
                  innerArgs, cleanups, cleanupPos, cleanupBusy, cleanupLog,
                  tokLog, OuterSafety, innerTag, taskSafety, flavor, started >>
  /\ UNCHANGED rvars

\* (co_await std::move(reversed_noexcept_cleanups.get()), ...): the pack is
\* awaited front to back, one task at a time.  A hook reads the error through
\* the pointer it was made with, when it runs.
NextCleanup(pos) == pos + 1

\* Mutant: the error is copied when the cleanup task is made.
HookSees_copied(task, err) == task.errAtMake

\* What a co_cleanup(priv, const exception_wrapper* ew) body reads when it
\* runs: *ew, the cell as it is then.
HookSees(task, err) == err

\* Mutant: the cleanup tasks are started together, not one after the other.
cleanup_begin_together ==
  /\ pc = "cleanup"
  /\ Len(cleanupLog) < Len(cleanups)
  /\ cleanupLog' = Append(cleanupLog,
       [ arg |-> cleanups[Len(cleanupLog) + 1].arg,
         seen |-> HookSees(cleanups[Len(cleanupLog) + 1], inner_err) ])
  /\ cleanupBusy' = TRUE
  /\ UNCHANGED << binds, cfg, pc, hasStorage, inner_err, ctorLog, dtorLog,
                  storageIdx, innerArgs, innerState, cleanups, cleanupPos,
                  tokLog, res, OuterSafety, innerTag, taskSafety, flavor,
                  started, outcome, innerOut >>
  /\ UNCHANGED rvars

cleanup_begin ==
  /\ pc = "cleanup"
  /\ ~ cleanupBusy
  /\ cleanupPos < Len(cleanups)
  /\ cleanupLog' = Append(cleanupLog,
       [ arg |-> cleanups[NextCleanup(cleanupPos)].arg,
         seen |-> HookSees(cleanups[NextCleanup(cleanupPos)], inner_err) ])
  /\ cleanupBusy' = TRUE
  /\ UNCHANGED << binds, cfg, pc, hasStorage, inner_err, ctorLog, dtorLog,
                  storageIdx, innerArgs, innerState, cleanups, cleanupPos,
                  tokLog, res, OuterSafety, innerTag, taskSafety, flavor,
                  started, outcome,
                  innerOut >>
  /\ UNCHANGED rvars

\* Awaiting a noexcept awaitable whose body fails: the exception cannot leave
\* it, the process is terminated.
noexcept_await(h) == IF h = "throws" THEN "terminate" ELSE "done"

\* The hook that is being awaited.
CurrentHook == binds[cleanupLog[Len(cleanupLog)].arg].hook

cleanup_terminate ==
  /\ pc = "cleanup"
  /\ cleanupBusy
  /\ noexcept_await(CurrentHook) = "terminate"
  /\ pc' = "terminated"
  /\ UNCHANGED << binds, cfg, hasStorage, inner_err, ctorLog, dtorLog,
                  storageIdx, innerArgs, innerState, cleanups, cleanupLog,
                  cleanupPos, cleanupBusy,
                  tokLog, res, OuterSafety, innerTag, taskSafety, flavor,
                  started, outcome,
                  innerOut >>
  /\ UNCHANGED rvars

cleanup_end ==
  /\ pc = "cleanup"
  /\ cleanupBusy
  /\ noexcept_await(CurrentHook) = "done"
  /\ cleanupPos' = NextCleanup(cleanupPos)
  /\ cleanupBusy' = FALSE
  /\ UNCHANGED << binds, cfg, pc, hasStorage, inner_err, ctorLog, dtorLog,
                  storageIdx, innerArgs, innerState, cleanups, cleanupLog,
                  tokLog, res, OuterSafety, innerTag, taskSafety, flavor,
                  started, outcome,
                  innerOut >>
  /\ UNCHANGED rvars

\* Mutant: only the first task of the pack is awaited.
CleanupsDone_first(pos, pack) == pos >= 1 \/ pack = << >>

\* All cleanup tasks of the pack have been awaited.
CleanupsDone(pos, pack) == pos = Len(pack)

async_closure_outer_coro_result(r) ==
  IF r.after_cleanup THEN TryValue(r.val, FALSE) ELSE r

\* Mutant: the error is yielded from res, whose exception was moved out.
OuterResult_from_res(r, err) ==
  IF r.state = "value" THEN async_closure_outer_coro_result(r)
  ELSE IF r.state = "exception" THEN r
  ELSE TryException(UsingUninitializedTry)

\* What the outer coro completes with (lines 171-181).
OuterResult(r, err) ==
  IF r.state = "value" THEN async_closure_outer_coro_result(r)
  ELSE IF r.state = "exception" THEN TryException(err)
  ELSE TryException(UsingUninitializedTry)

outer_coro_return ==
  /\ pc = "cleanup"
  /\ ~ cleanupBusy
  /\ CleanupsDone(cleanupPos, cleanups)
  /\ outcome' = OuterResult(res, inner_err)
  \* co_error(std::move(inner_err)) empties the cell
  /\ inner_err' = (IF res.state = "exception" THEN NoError ELSE inner_err)
  /\ pc' = "completed"
  /\ UNCHANGED << binds, cfg, hasStorage, ctorLog, dtorLog, storageIdx,
                  innerArgs, innerState, cleanups, cleanupPos, cleanupBusy,
                  cleanupLog, tokLog, res, OuterSafety, innerTag, taskSafety,
                  flavor, started, innerOut >>
  /\ UNCHANGED rvars

\* Mutant: the storage is not owned by the coroutine frame and goes as soon
\* as the inner task is through.
destroy_frame_early ==
  /\ pc \in { "cleanup", "completed" }
  /\ dtorLog' = (IF hasStorage THEN storage_dtor(ctorLog) ELSE dtorLog)
  /\ innerState' = "destroyed"
  /\ pc' = "destroyed"
  /\ UNCHANGED << binds, cfg, hasStorage, inner_err, ctorLog, storageIdx,
                  innerArgs, cleanups, cleanupPos, cleanupBusy, cleanupLog,
                  tokLog, res, OuterSafety, innerTag, taskSafety, flavor,
                  started, outcome, innerOut >>
  /\ UNCHANGED rvars

\* The completed coroutine's frame is destroyed, and with it its parameter
\* storage_ptr: "This param keeps the stored args alive".
destroy_frame ==
  /\ pc = "completed"
  /\ dtorLog' = (IF hasStorage THEN storage_dtor(ctorLog) ELSE dtorLog)
  /\ innerState' = "destroyed"
  /\ pc' = "destroyed"
  /\ UNCHANGED << binds, cfg, hasStorage, inner_err, ctorLog, storageIdx,
                  innerArgs, cleanups, cleanupPos, cleanupBusy, cleanupLog,
                  tokLog, res, OuterSafety, innerTag, taskSafety, flavor,
                  started, outcome,
                  innerOut >>
  /\ UNCHANGED rvars

Next ==
  \/ bind_storage
  \/ bind_inner_coro
  \/ bind_outer_coro
  \/ bind_outer_coro_throws
  \/ bind_return
  \/ release_outer_coro
  \/ release_outer_coro_rejected
  \/ discard
  \/ inner_only_begin
  \/ outer_coro_begin
  \/ set_cancel_tokens
  \/ await_inner
  \/ inner_done
  \/ cleanup_begin
  \/ cleanup_end
  \/ outer_coro_return
  \/ destroy_frame

Spec == Init /\ [][Next]_vars

\* Mutant: the first-error cell is one static object shared by all closures.
inner_err_ptr_static(own, shared) == shared

\* async_closure_storage::inner_err_ptr(): the cell is a member of the
\* closure's own storage, which make_unique allocates per closure.
inner_err_ptr(own, shared) == own

\* The execution context of the other closure gets to run: from here on the
\* steps are those of the other closure, on its own storage.
switch_context ==
  /\ other # NoClosure
  /\ other' = ClosureState
  /\ inner_err' = inner_err_ptr(other.inner_err, inner_err)
  /\ binds' = other.binds
  /\ cfg' = other.cfg
  /\ pc' = other.pc
  /\ hasStorage' = other.hasStorage
  /\ ctorLog' = other.ctorLog
  /\ dtorLog' = other.dtorLog
  /\ storageIdx' = other.storageIdx
  /\ innerArgs' = other.innerArgs
  /\ innerState' = other.innerState
  /\ cleanups' = other.cleanups
  /\ cleanupPos' = other.cleanupPos
  /\ cleanupBusy' = other.cleanupBusy
  /\ cleanupLog' = other.cleanupLog
  /\ tokLog' = other.tokLog
  /\ res' = other.res
  /\ OuterSafety' = other.OuterSafety
  /\ innerTag' = other.innerTag
  /\ taskSafety' = other.taskSafety
  /\ flavor' = other.flavor
  /\ started' = other.started
  /\ outcome' = other.outcome
  /\ innerOut' = other.innerOut
  /\ UNCHANGED << body, wraps, rpc, completions, captured, callerThrew,
                  numAwaited, awaits, reached, ctx >>

\* Two independent closures, interleaved.
NextPair ==
  \/ bind_storage
  \/ bind_inner_coro
  \/ bind_outer_coro
  \/ bind_outer_coro_throws
  \/ bind_return
  \/ release_outer_coro
  \/ discard
  \/ inner_only_begin
  \/ outer_coro_begin
  \/ set_cancel_tokens
  \/ await_inner
  \/ inner_done
  \/ cleanup_begin
  \/ cleanup_end
  \/ outer_coro_return
  \/ destroy_frame
  \/ switch_context

SpecPair == InitPair /\ [][NextPair]_vars

\* Cancellation is requested on the awaiting context (simpleCancellation:
\* the timeout fires).
request_cancellation ==
  /\ ~ ctx.cancelRequested
  /\ ctx' = [ ctx EXCEPT !.cancelRequested = TRUE ]
  /\ UNCHANGED << cvars, body, wraps, rpc, completions, captured, callerThrew,
                  numAwaited, awaits, reached, other >>

\* The steps of an awaited closure: the executor resumes the coroutine
\* whenever it can go on.
RunStep ==
  \/ set_cancel_tokens
  \/ await_inner
  \/ inner_done
  \/ cleanup_begin
  \/ cleanup_end
  \/ outer_coro_return
  \/ destroy_frame

NextLive ==
  \/ bind_storage
  \/ bind_inner_coro
  \/ bind_outer_coro
  \/ bind_outer_coro_throws
  \/ bind_return
  \/ release_outer_coro
  \/ discard
  \/ inner_only_begin
  \/ outer_coro_begin
  \/ set_cancel_tokens
  \/ await_inner
  \/ inner_done
  \/ cleanup_begin
  \/ cleanup_end
  \/ outer_coro_return
  \/ destroy_frame
  \/ request_cancellation

\* An awaited closure is resumed whenever it can take a step; whether the
\* task is awaited at all, and whether cancellation is requested, is up to
\* the caller.
SpecLive == InitLive /\ [][NextLive]_vars /\ WF_vars(RunStep)

\* The same closure, given cleanup hooks of every kind.
NextHooks ==
  \/ bind_storage
  \/ bind_inner_coro
  \/ bind_outer_coro
  \/ bind_outer_coro_throws
  \/ bind_outer_coro_rejected
  \/ bind_return
  \/ release_outer_coro
  \/ release_outer_coro_rejected
  \/ discard
  \/ inner_only_begin
  \/ outer_coro_begin
  \/ set_cancel_tokens
  \/ await_inner
  \/ inner_done
  \/ cleanup_begin
  \/ cleanup_end
  \/ cleanup_terminate
  \/ outer_coro_return
  \/ destroy_frame

SpecHooks == InitHooks /\ [][NextHooks]_vars

\* ------------------------------------- coro/Result.h and co_await_result
\* co_error(a...): holds the exception_wrapper built from a..., which must
\* not be empty.
co_error(e) == [ ex |-> e ]

\* Mutant: the constructor asserts nothing.
co_error_assert_off(e) == TRUE

\* assert(ex_) in the constructor of co_error
co_error_assert(e) == e # NoError

\* Mutant: co_cancelled converts to an ordinary error.
co_cancelled_as_failure == co_error("E1")

\* co_cancelled_t::operator co_error()
co_cancelled == co_error(OperationCancelled)

\* folly::result_to_try
result_to_try(r) ==
  CASE r.kind = "value" -> TryValue(r.val, FALSE)
    [] r.kind = "error" -> TryException(r.ex)
    [] r.kind = "stopped" -> TryException(OperationCancelled)
    [] OTHER -> EmptyTry

\* assert(!result_.hasException() || result_.exception()) in the
\* constructor of co_result
co_result_assert(t) == t.state # "exception" \/ t.ex # NoError

\* co_result(Try<T>&&): holds the Try.
co_result_of_try(t) == [ result |-> t ]

\* Mutant: the Try handed to co_result is not moved into result_.
co_result_default(r) == [ result |-> EmptyTry ]

\* co_result(result<T>): holds result_to_try(result).
co_result(r) == [ result |-> result_to_try(r) ]

\* What co_await_result's awaiter makes of the Try the awaited task
\* completed with.
try_to_result(t) ==
  CASE t.state = "value" -> ResultValue(t.val)
    [] t.state = "exception" /\ t.ex = OperationCancelled -> ResultStopped
    [] t.state = "exception" -> ResultError(t.ex)
    [] OTHER -> ResultError(UsingUninitializedTry)

\* co_await co_await_result(task): the awaiting coroutine gets the result,
\* nothing is thrown into it.
co_await_result(t) == [ threw |-> FALSE, res |-> try_to_result(t) ]

\* Mutant: the coroutine is resumed after the yield, as a generator is.
yield_value_co_error_resumes(y) ==
  [ completion |-> TryException(y.ex), resumes |-> TRUE ]

\* co_yield co_error(...) in a task: the task completes with the error and
\* is not resumed.
yield_value_co_error(y) ==
  [ completion |-> TryException(y.ex), resumes |-> FALSE ]

\* co_yield co_result(...) in a task: the task completes with the Try held
\* and is not resumed.
yield_value_co_result(y) == [ completion |-> y.result, resumes |-> FALSE ]

\* Running a body of Bodies to its end.
RunBody(b) ==
  CASE b.stmt = "co_return" ->
         [ completion |-> TryValue(b.arg, FALSE), resumes |-> FALSE ]
    [] b.stmt = "co_error" -> yield_value_co_error(co_error(b.arg))
    [] b.stmt = "co_result" ->
         yield_value_co_result(co_result_of_try(TryException(b.arg)))
    [] OTHER -> yield_value_co_error(co_cancelled)

\* The assert of the constructor the body calls fails: only builds with
\* assertions (kIsDebug) evaluate it, and the process is then aborted.
BodyAssertFails(Debug, b) ==
  /\ Debug
  /\ \/ b.stmt = "co_error" /\ ~ co_error_assert(b.arg)
     \/ b.stmt = "co_result" /\ ~ co_result_assert(TryException(b.arg))

InitResult ==
  /\ binds = << >>
  /\ cfg \in { c \in Cfgs : ~ c.force_shared_cleanup /\ c.SetCancelTok
                             /\ c.InnerSafety = unsafe }
  /\ InitRest
  /\ body \in Bodies
  /\ wraps \in 0 .. MaxWrap
  /\ rpc = "idle"
  /\ completions = << >>
  /\ captured = NoResult
  /\ callerThrew = FALSE
  /\ numAwaited = 0
  /\ awaits = 0
  /\ reached = 0
  /\ other = NoClosure
  /\ ctx = NoContext

\* The caller makes the outermost task and awaits it with co_await_result.
start_await ==
  /\ rpc = "idle"
  /\ awaits < MaxAwaits
  /\ completions' = << >>
  /\ captured' = NoResult
  /\ rpc' = "body"
  /\ UNCHANGED << body, wraps, callerThrew, numAwaited, awaits, reached >>
  /\ UNCHANGED << cvars, other, ctx >>

\* The innermost task is awaited: its body runs.
run_body ==
  /\ rpc = "body"
  /\ numAwaited' = numAwaited + 1
  /\ IF BodyAssertFails(cfg.kIsDebug, body)
     THEN /\ rpc' = "aborted"
          /\ UNCHANGED << completions, reached >>
     ELSE /\ completions' = << RunBody(body).completion >>
          /\ reached' = reached + (IF RunBody(body).resumes THEN 1 ELSE 0)
          /\ rpc' = "capture"
  /\ UNCHANGED << body, wraps, captured, callerThrew, awaits >>
  /\ UNCHANGED << cvars, other, ctx >>

\* co_await co_await_result(task) resumes the awaiting coroutine.
capture_result ==
  /\ rpc = "capture"
  /\ captured' = co_await_result(completions[Len(completions)]).res
  /\ callerThrew' =
       (callerThrew \/ co_await_result(completions[Len(completions)]).threw)
  /\ rpc' = (IF Len(completions) <= wraps THEN "reemit" ELSE "done")
  /\ UNCHANGED << body, wraps, completions, numAwaited, awaits, reached >>
  /\ UNCHANGED << cvars, other, ctx >>

\* The awaiting task does co_yield co_result(<the captured result>), with a
\* statement after it that must not be reached.
reemit ==
  /\ rpc = "reemit"
  /\ IF cfg.kIsDebug /\ ~ co_result_assert(co_result(captured).result)
     THEN /\ rpc' = "aborted"
          /\ UNCHANGED << completions, reached >>
     ELSE /\ completions' =
               Append(completions,
                      yield_value_co_result(co_result(captured)).completion)
          /\ reached' = reached
               + (IF yield_value_co_result(co_result(captured)).resumes
                  THEN 1 ELSE 0)
          /\ rpc' = "capture"
  /\ UNCHANGED << body, wraps, captured, callerThrew, numAwaited, awaits >>
  /\ UNCHANGED << cvars, other, ctx >>

\* The caller has the result of this await.
await_done ==
  /\ rpc = "done"
  /\ awaits' = awaits + 1
  /\ rpc' = "idle"
  /\ UNCHANGED << body, wraps, completions, captured, callerThrew, numAwaited,
                  reached >>
  /\ UNCHANGED << cvars, other, ctx >>

NextResult ==
  \/ start_await
  \/ run_body
  \/ capture_result
  \/ reemit
  \/ await_done

SpecResult == InitResult /\ [][NextResult]_vars

\* ================================================================ claims
IsPrefix(s, t) == Len(s) <= Len(t) /\ \A k \in DOMAIN s : s[k] = t[k]

\* The arguments whose hooks ran, in the order they ran.
RanHooks == [ k \in DOMAIN cleanupLog |-> cleanupLog[k].arg ]

\* The stored arguments that have a hook, in construction order.
HooksBuilt ==
  LET IsHook(i) == binds[i].cleanup IN SelectSeq(ctorLog, IsHook)

TimesRan(i) == Count(RanHooks, i)

Finished == pc \in { "completed", "destroyed" }

\* C1: the cleanup hooks are awaited in the exact reverse of the order in
\* which their arguments were constructed (n, n-1, ..., 1), one after the
\* other, and all of them by the time the closure completes, for every
\* outcome of the inner task.
C1_CleanupReverseOfConstruction ==
  /\ IsPrefix(RanHooks, Reverse(HooksBuilt))
  /\ \A j, k \in DOMAIN RanHooks : j < k => RanHooks[j] > RanHooks[k]
  /\ (Finished /\ hasStorage) => RanHooks = Reverse(HooksBuilt)

C1_Witness ==
  /\ pc = "completed"
  /\ Len(HooksBuilt) >= 3
  /\ RanHooks = Reverse(HooksBuilt)
  /\ outcome.state = "exception"

\* C2: once the closure is being executed, no stored argument is destroyed
\* before every cleanup task has been awaited to completion.
C2_NoDtorBeforeCleanups ==
  (started /\ dtorLog # << >>) =>
    /\ cleanupPos = Len(cleanups)
    /\ ~ cleanupBusy
    /\ \A i \in HookArgs : TimesRan(i) = 1

C2_Witness ==
  /\ pc = "destroyed"
  /\ started
  /\ Len(dtorLog) >= 2
  /\ Len(cleanupLog) >= 2

\* C3: the stored arguments are constructed left to right in declaration
\* order, and destroyed in the exact reverse order.
C3_CtorLeftToRightDtorReverse ==
  /\ pc # "bind" => ctorLog = StoredArgs(binds)
  /\ \A j, k \in DOMAIN ctorLog : j < k => ctorLog[j] < ctorLog[k]
  /\ dtorLog # << >> => dtorLog = Reverse(ctorLog)

C3_Witness ==
  /\ pc = "destroyed"
  /\ started
  /\ Len(ctorLog) >= 2
  /\ Len(dtorLog) = Len(ctorLog)
  /\ dtorLog[1] = ctorLog[Len(ctorLog)]
  /\ binds[1].kind # "outer"

\* C4: every cleanup hook runs at most once, only hooks of stored arguments
\* run, and when the caller gets the closure's outcome (value, error or
\* cancellation; SafeTask or NowTask) every hook has run exactly once.
C4_EveryHookOnceBeforeOutcome ==
  /\ \A i \in Args : TimesRan(i) <= (IF i \in HookArgs THEN 1 ELSE 0)
  /\ outcome # NoOutcome => \A i \in HookArgs : TimesRan(i) = 1

C4_Witness ==
  /\ outcome # NoOutcome
  /\ flavor = "NowTask"
  /\ outcome = TryException(OperationCancelled)
  /\ Cardinality(HookArgs) >= 2
  /\ \A i \in HookArgs : TimesRan(i) = 1

\* C5: when the inner task fails with E, every cleanup hook reads E when it
\* runs, and the caller gets E.
C5_HooksAndCallerSeeInnerError ==
  (innerOut # NoOutcome /\ innerOut.state = "exception") =>
    /\ \A k \in DOMAIN cleanupLog : cleanupLog[k].seen = innerOut.ex
    /\ outcome # NoOutcome => outcome = TryException(innerOut.ex)

C5_Witness ==
  /\ pc = "completed"
  /\ innerOut = TryException("E2")
  /\ Len(cleanupLog) >= 2
  /\ \A k \in DOMAIN cleanups : cleanups[k].errAtMake # "E2"
  /\ outcome = TryException("E2")

\* C6: when the inner task completes with a value, every cleanup hook reads
\* an empty error when it runs, and the caller gets that value.
C6_SuccessHooksSeeNoError ==
  (innerOut # NoOutcome /\ innerOut.state = "value") =>
    /\ \A k \in DOMAIN cleanupLog : cleanupLog[k].seen = NoError
    /\ outcome # NoOutcome =>
         (outcome.state = "value" /\ outcome.val = innerOut.val)

C6_Witness ==
  /\ pc = "completed"
  /\ innerOut # NoOutcome
  /\ innerOut.state = "value"
  /\ innerOut.val = 2
  /\ cfg.kIsDebug
  /\ Len(cleanupLog) >= 2
  /\ outcome.state = "value"

\* Token propagation was asked for, has run, and a setParentCancelToken threw.
PropagationFailed ==
  /\ hasStorage
  /\ cfg.SetCancelTok
  /\ \E i \in OuterStored : binds[i].tok = "throw"
  /\ pc \in { "await_inner", "inner_running", "cleanup", "completed", "destroyed" }

\* C7: when token propagation fails, the inner task is never awaited, and
\* every cleanup hook has run exactly once when the closure completes.
C7_PropagationFailureSkipsInner ==
  PropagationFailed =>
    /\ innerState \notin { "running", "done" }
    /\ innerOut = NoOutcome
    /\ pc # "inner_running"
    /\ Finished => \A i \in HookArgs : TimesRan(i) = 1

C7_Witness ==
  /\ PropagationFailed
  /\ pc = "completed"
  /\ Cardinality(HookArgs) >= 2
  /\ \A i \in HookArgs : TimesRan(i) = 1
  /\ innerOut = NoOutcome

\* C8: when token propagation fails with E, the caller gets E.
C8_CallerGetsPropagationError ==
  (PropagationFailed /\ outcome # NoOutcome) => outcome = TryException(TokenError)

\* C9: a SafeTask is released exactly when OuterSafety is at least
\* closure_min_arg_safety and the inner coro's safety at least
\* unsafe_closure_internal; for async_closure() that is: every argument is
\* above unsafe_closure_internal and the inner coro is not a plain Task.
C9_ReleasedIffSafe ==
  pc \in { "released", "rejected" } =>
    /\ flavor = "SafeTask" <=>
         (OuterSafety >= closure_min_arg_safety
            /\ cfg.InnerSafety >= unsafe_closure_internal)
    /\ ~ cfg.force_shared_cleanup =>
         (flavor = "SafeTask" <=>
            /\ \A i \in Args :
                 binds[i].safety \notin { unsafe, unsafe_closure_internal }
            /\ cfg.InnerSafety # unsafe)

C9_Witness ==
  /\ pc = "released"
  /\ flavor = "SafeTask"
  /\ hasStorage
  /\ \E i \in Args : binds[i].safety = co_cleanup_safe_ref
  /\ \E i \in Args : binds[i].safety = after_cleanup_ref

\* C10: a closure with an argument at the unsafe level is never released as
\* a SafeTask, with or without storage and whatever the other arguments are;
\* the only task it is released as is the NowTask of the run-now API.
C10_UnsafeArgNeverShareable ==
  (\E i \in Args : binds[i].safety = unsafe) =>
    /\ flavor # "SafeTask"
    /\ pc = "wrapped" => ~ ENABLED release_outer_coro
    /\ pc = "released" => (flavor = "NowTask" /\ cfg.force_shared_cleanup)

C10_Witness ==
  /\ pc = "released"
  /\ flavor = "NowTask"
  /\ hasStorage
  /\ binds[1].safety = unsafe
  /\ \E i \in Args : binds[i].safety = maybe_value

\* C11: a closure built with async_closure() whose arguments include one
\* below closure_min_arg_safety is rejected while it is built (no task is
\* released, the inner task has not run); a closure built with
\* async_now_closure() is released as a NowTask at every level of its
\* arguments, for a SafeTask and for a plain Task inner coro, with and
\* without storage.
C11_GateRejectsOnlyMovable ==
  /\ ( /\ ~ cfg.force_shared_cleanup
       /\ \E i \in Args : binds[i].safety < closure_min_arg_safety )
       => /\ pc # "released"
          /\ pc = "wrapped" => ENABLED release_outer_coro_rejected
  /\ pc = "rejected" =>
       (~ started /\ innerState = "created" /\ flavor # "SafeTask")
  /\ cfg.force_shared_cleanup =>
       /\ pc \notin { "wrapped", "rejected" }
       /\ pc = "outer_made" => ENABLED bind_return
       /\ pc = "released" => flavor = "NowTask"

C11_Witness ==
  /\ pc = "released"
  /\ flavor = "NowTask"
  /\ ~ hasStorage
  /\ cfg.InnerSafety = unsafe
  /\ Len(binds) = 2
  /\ binds[1].safety = unsafe
  /\ binds[2].safety = unsafe_closure_internal

\* C12: the safety a released SafeTask carries is the least safety among the
\* closure's arguments, whether the task is the outer coro or the inner task
\* itself; a closure with no arguments, or with maybe_value arguments only,
\* is released at maybe_value.
C12_TagIsLeastArgSafety ==
  (pc = "released" /\ flavor = "SafeTask") =>
    /\ \A i \in Args : taskSafety <= binds[i].safety
    /\ Args # {} => \E i \in Args : taskSafety = binds[i].safety
    /\ (\A i \in Args : binds[i].safety = maybe_value) =>
         taskSafety = maybe_value

C12_Witness ==
  /\ pc = "released"
  /\ flavor = "SafeTask"
  /\ ~ hasStorage
  /\ Len(binds) = 2
  /\ binds[1].safety = maybe_value
  /\ binds[2].safety = co_cleanup_safe_ref
  /\ taskSafety = co_cleanup_safe_ref

\* The safeties of arguments from..to, for splitting a fold in two.
SafetiesBetween(from, to) == SubSeq(ArgSafeties(binds), from, to)

\* OuterSafety has been computed by least_safe_alias (not forced to unsafe).
Joined == pc \notin { "bind", "stored" } /\ ~ cfg.force_shared_cleanup

\* C13: least_safe_alias over the arguments' safeties is the least of them
\* under unsafe < unsafe_closure_internal < shared_cleanup <
\* co_cleanup_safe_ref < after_cleanup_ref < maybe_value; it does not depend
\* on the order of the arguments or on how the fold is split, equal
\* safeties fold to themselves, and over no arguments it is maybe_value,
\* the safest level an argument can measure.
C13_JoinIsLeastAndEmptyIsMaybeValue ==
  Joined =>
    /\ \A i \in Args : OuterSafety <= binds[i].safety
    /\ Args # {} => \E i \in Args : OuterSafety = binds[i].safety
    /\ OuterSafety = least_safe_alias(Reverse(ArgSafeties(binds)))
    /\ \A k \in 0 .. Len(binds) :
         OuterSafety =
           least_safe_alias(<< least_safe_alias(SafetiesBetween(1, k)),
                               least_safe_alias(SafetiesBetween(k + 1, Len(binds))) >>)
    /\ (Args # {} /\ \A i \in Args : binds[i].safety = binds[1].safety) =>
         OuterSafety = binds[1].safety
    /\ Args = {} => OuterSafety = maybe_value

C13_Witness ==
  /\ Joined
  /\ Len(binds) = 2
  /\ binds[1].safety = after_cleanup_ref
  /\ binds[2].safety = co_cleanup_safe_ref
  /\ OuterSafety = co_cleanup_safe_ref

\* C13 as the specification document words it: the order ends in
\* maybe_value < value, and the fold over no arguments is the greatest
\* level of that order.
C13_JoinOfNothingIsValue ==
  Joined =>
    /\ \A i \in Args : OuterSafety <= binds[i].safety
    /\ Args # {} => \E i \in Args : OuterSafety = binds[i].safety
    /\ Args = {} => OuterSafety = value

\* C14: the outer coro does not change what the caller gets.  Unless a
\* setParentCancelToken of a stored argument throws (a closure without an
\* outer coro hands out no token), the inner task runs and the closure
\* completes with the inner task's outcome -- the same value, the same
\* error, the same cancellation -- with storage and without.
C14_OutcomeSameWithAndWithoutOuterCoro ==
  (outcome # NoOutcome /\ \A i \in OuterStored : binds[i].tok # "throw") =>
    /\ innerOut \in InnerOutcomes
    /\ IF innerOut.state = "value"
       THEN outcome.state = "value" /\ outcome.val = innerOut.val
       ELSE outcome = innerOut
    /\ ~ hasStorage => outcome = innerOut

C14_Witness ==
  /\ hasStorage
  /\ HookArgs = {}
  /\ \A i \in OuterStored : binds[i].tok = "none"
  /\ pc = "completed"
  /\ innerOut = TryException(OperationCancelled)
  /\ outcome = TryException(OperationCancelled)

\* C15: storage exists exactly when some argument is stored on the outer
\* coro; each such argument is constructed once, before the inner coro is
\* created.  Without such an argument there is no storage, no cleanup task,
\* no token propagation and no outer coro: the released task is the inner
\* task, with the inner task's safety and outcome.
C15_StorageIffStoredArg ==
  /\ pc \in { "bind", "stored" } => innerState = "none"
  /\ pc # "bind" =>
       /\ hasStorage <=> (\E i \in Args : binds[i].kind = "outer")
       /\ \A i \in Args :
            Count(ctorLog, i) = (IF binds[i].kind = "outer" THEN 1 ELSE 0)
  /\ (pc # "bind" /\ ~ hasStorage) =>
       /\ ctorLog = << >> /\ cleanups = << >>
       /\ tokLog = << >> /\ cleanupLog = << >> /\ dtorLog = << >>
       /\ pc \notin { "threw", "propagate", "await_inner", "cleanup" }
       /\ (pc = "released" /\ flavor = "SafeTask") => taskSafety = innerTag
       /\ outcome # NoOutcome => outcome = innerOut

C15_Witness ==
  /\ ~ hasStorage
  /\ pc = "completed"
  /\ flavor = "SafeTask"
  /\ \E i \in Args : binds[i].kind = "inner"
  /\ outcome = innerOut
  /\ outcome.state = "value"

\* C16: a closure with a cleanup-hook argument has storage and so an outer
\* coro; with storage, the inner coro gets for every owned capture a
\* reference to the capture's slot of the storage, never the value; without
\* storage it gets the owned captures by value.
C16_RefsIntoStorageOrOwnedValues ==
  pc \notin { "bind", "stored" } =>
    /\ HookArgs # {} => hasStorage
    /\ hasStorage =>
         \A i \in Args : binds[i].kind \in { "outer", "inner" } =>
           /\ innerArgs[i].how = "capture_ref"
           /\ innerArgs[i].slot + 1 \in DOMAIN ctorLog
           /\ ctorLog[innerArgs[i].slot + 1] = i
    /\ ~ hasStorage =>
         \A i \in Args : binds[i].kind \in { "outer", "inner" } =>
           innerArgs[i].how = "owned"

C16_Witness ==
  /\ pc = "inner_running"
  /\ hasStorage
  /\ Len(binds) = 3
  /\ binds[1].kind = "regular"
  /\ binds[2].cleanup
  /\ binds[3].kind = "outer"
  /\ innerArgs[3] = [ how |-> "capture_ref", slot |-> 1 ]

\* C17: the closure completes with exactly one of: the inner task's value,
\* if the inner task succeeded; else the error that was captured (the inner
\* task's, or the one token propagation failed with); else cancellation.
C17_ExactlyOneTerminalCondition ==
  outcome # NoOutcome =>
    IF innerOut # NoOutcome /\ innerOut.state = "value"
    THEN outcome.state = "value" /\ outcome.val = innerOut.val
    ELSE /\ outcome.state = "exception"
         /\ outcome.ex = (IF innerOut # NoOutcome THEN innerOut.ex ELSE TokenError)
         /\ outcome.ex \in Errors \cup { TokenError, OperationCancelled }

\* C18: building a closure never runs the inner task: until the released
\* task is awaited the inner coro is at most created, and a closure that was
\* rejected, dropped unawaited or failed to build never ran it.
C18_BuildingNeverRunsInner ==
  /\ ~ started =>
       /\ innerState \in { "none", "created", "destroyed" }
       /\ innerOut = NoOutcome
  /\ pc \in { "bind", "stored" } => innerState = "none"
  /\ pc \in { "inner_made", "outer_made", "wrapped", "rejected" } =>
       (~ started /\ innerState = "created")
  /\ pc \in { "rejected", "discarded", "threw" } =>
       (~ started /\ innerOut = NoOutcome /\ outcome = NoOutcome)

C18_Witness ==
  /\ pc = "rejected"
  /\ cfg.InnerSafety = unsafe
  /\ Args # {}
  /\ innerState = "created"
  /\ ~ started

\* C19: every cleanup task is made while the closure is built: from the
\* moment the outer coro exists, and so whenever the inner task runs, there
\* is one task per cleanup-hook argument, each made while inner_err still
\* held its initial value, that is before the outer coro began.
C19_CleanupTasksMadeWhileBuilding ==
  /\ (hasStorage /\ pc \notin { "bind", "stored", "inner_made", "threw" }) =>
       /\ Len(cleanups) = Cardinality(HookArgs)
       /\ { cleanups[k].arg : k \in DOMAIN cleanups } = HookArgs
  /\ \A k \in DOMAIN cleanups :
       cleanups[k].errAtMake = async_closure_default_inner_err(cfg.kIsDebug)
  /\ cleanupLog # << >> => started

C19_Witness ==
  /\ pc = "inner_running"
  /\ cfg.kIsDebug
  /\ inner_err = NoError
  /\ Len(cleanups) >= 2
  /\ cleanupLog = << >>

\* C20 as worded: whenever the stored arguments of a closure that was not
\* simply dropped are destroyed -- also when making a cleanup task failed
\* while the closure was built -- the hook of each has run.
C20_NoHookArgLeftUncleaned ==
  (dtorLog # << >> /\ pc # "discarded") =>
    \A i \in HookArgs : TimesRan(i) = 1

\* C20: in every execution in which the closure was built and awaited, the
\* hook of every cleanup-hook argument has run once, and all hooks are
\* through, when the arguments are destroyed.  When making a cleanup task
\* (or the outer coro) fails, the closure has not started: the stored
\* arguments are destroyed in reverse order with no hook run and the inner
\* task not run.
C20_AwaitedClosureCleansBuildFailureDoesNot ==
  /\ (dtorLog # << >> /\ pc \notin { "discarded", "threw" }) =>
       /\ started
       /\ \A i \in HookArgs : TimesRan(i) = 1
       /\ RanHooks = Reverse(HooksBuilt)
       /\ ~ cleanupBusy
  /\ pc = "threw" =>
       /\ ~ started
       /\ cleanupLog = << >> /\ cleanups = << >>
       /\ dtorLog = Reverse(ctorLog)
       /\ innerOut = NoOutcome /\ outcome = NoOutcome

C20_Witness ==
  /\ pc = "threw"
  /\ Cardinality(HookArgs) >= 2
  /\ Len(dtorLog) >= 2
  /\ cleanupLog = << >>

\* C21: once the closure is being executed, inner_err goes from empty to an
\* error at most once -- to the error of a failed token propagation, or,
\* if it is still empty then, to the error of the inner task -- and an
\* error in the cell is never replaced by another one (it only leaves the
\* cell when it is moved out to the caller on completion).
C21_FirstErrorWrittenOnce ==
  [][ started =>
        /\ inner_err # NoError =>
             /\ inner_err' \in { inner_err, NoError }
             /\ inner_err' = NoError =>
                  (pc = "cleanup" /\ pc' = "completed"
                     /\ outcome' = TryException(inner_err))
        /\ (inner_err = NoError /\ inner_err' # NoError) =>
             \/ pc = "propagate" /\ inner_err' = TokenError
             \/ pc = "inner_running" /\ innerOut' = TryException(inner_err')
    ]_vars

C21_Witness ==
  /\ PropagationFailed
  /\ pc = "completed"
  /\ inner_err = TokenError
  /\ cleanupLog # << >>
  /\ \A k \in DOMAIN cleanupLog : cleanupLog[k].seen = TokenError

\* The states of the outer coro, in the order the coroutine body goes
\* through them.
ScopeRank(p) ==
  CASE p = "released" -> 0
    [] p = "propagate" -> 1
    [] p = "await_inner" -> 2
    [] p = "inner_running" -> 3
    [] p = "cleanup" -> 4
    [] p = "completed" -> 5
    [] OTHER -> 6

\* C22: the outer coro only moves forward through created, propagating the
\* token, awaiting the inner task, running the cleanups, completed; it
\* completes only from running the cleanups, and it goes to the cleanups
\* without awaiting the inner task exactly when token propagation failed.
C22_OuterCoroOnlyMovesForward ==
  [][ (hasStorage /\ pc \in { "released", "propagate", "await_inner",
                               "inner_running", "cleanup", "completed" }) =>
        /\ ScopeRank(pc') >= ScopeRank(pc)
        /\ pc' = "completed" => pc \in { "cleanup", "completed" }
        /\ (pc' = "cleanup" /\ pc # "cleanup") =>
             pc \in { "await_inner", "inner_running" }
        /\ pc' = "inner_running" => pc \in { "await_inner", "inner_running" }
        /\ (pc = "await_inner" /\ pc' # pc) =>
             /\ pc' = "cleanup" <=> PropagationFailed
             /\ pc' = "inner_running" <=> ~ PropagationFailed
        /\ pc' = "propagate" => pc \in { "released", "propagate" }
        /\ pc' = "await_inner" => pc \in { "propagate", "await_inner" }
    ]_vars

C22_Witness ==
  /\ PropagationFailed
  /\ pc = "completed"
  /\ innerState = "created"
  /\ cleanupPos = Len(cleanups)
  /\ Len(cleanups) >= 1

\* C23: when token propagation was asked for and no setParentCancelToken
\* threw, every stored argument that has a setParentCancelToken has been
\* given the token, once, by the time the inner task starts.
C23_TokenBeforeInnerStarts ==
  ( /\ hasStorage
    /\ cfg.SetCancelTok
    /\ \A i \in OuterStored : binds[i].tok # "throw"
    /\ innerState \in { "running", "done" } ) =>
      \A i \in Args :
        Count(tokLog, i) =
          (IF i \in OuterStored /\ binds[i].tok = "ok" THEN 1 ELSE 0)

C23_Witness ==
  /\ pc = "inner_running"
  /\ cfg.SetCancelTok
  /\ Len(tokLog) = 2
  /\ \E i \in OuterStored : binds[i].tok = "none"

\* The arguments that are capture references handed down by a parent closure.
PassedRefs == { i \in Args : binds[i].kind = "pass" }

\* C24: a cleanup-hook argument that a closure gets as a capture reference
\* from its parent is handed on to the inner coro as that reference and is
\* not the closure's to clean up: the closure never stores it, destroys it,
\* makes a cleanup task for it or runs its hook.  The hooks that run are
\* those of the closure's own stored arguments, once each, after the inner
\* task -- and every closure nested in it -- is through.
C24_PassedCleanupArgLeftToOwner ==
  /\ \A i \in PassedRefs :
       /\ Count(ctorLog, i) = 0 /\ Count(dtorLog, i) = 0
       /\ Count(tokLog, i) = 0
       /\ TimesRan(i) = 0
       /\ \A k \in DOMAIN cleanups : cleanups[k].arg # i
       /\ pc \notin { "bind", "stored" } => innerArgs[i].how = "passed_ref"
  /\ \A i \in HookArgs :
       /\ TimesRan(i) <= 1
       /\ TimesRan(i) = 1 => innerState # "running"
       /\ Finished => TimesRan(i) = 1

C24_Witness ==
  /\ pc = "destroyed"
  /\ Len(binds) = 2
  /\ binds[1].kind = "pass" /\ binds[1].cleanup
  /\ binds[2].kind = "outer" /\ binds[2].cleanup
  /\ RanHooks = << 2 >>
  /\ dtorLog = << 2 >>

\* C28: whenever the outer coro completes, its Try `res` has been written
\* by the inner task, and the caller never gets UsingUninitializedTry.
C28_OutcomeSlotAlwaysWritten ==
  (hasStorage /\ Finished) =>
    /\ res # EmptyTry
    /\ outcome # TryException(UsingUninitializedTry)

\* C29: the phases of a closure follow one another: a cleanup hook starts
\* only when the inner task has finished or was skipped, hook k+1 starts
\* only when hook k has completed, and so at no time is more than one of
\* the inner task and the cleanup hooks in progress.
C29_PhasesStrictlySequential ==
  /\ cleanupLog # << >> =>
       /\ innerState # "running"
       /\ pc \in { "cleanup", "completed", "destroyed" }
       /\ innerOut # NoOutcome \/ PropagationFailed
  /\ Len(cleanupLog) = cleanupPos + (IF cleanupBusy THEN 1 ELSE 0)
  /\ cleanupBusy => (pc = "cleanup" /\ innerState # "running")
  /\ innerState = "running" => (pc = "inner_running" /\ ~ cleanupBusy)
  /\ pc \in { "bind", "stored", "inner_made", "outer_made", "wrapped" } =>
       (innerState # "running" /\ ~ cleanupBusy)

C29_Witness ==
  /\ pc = "cleanup"
  /\ cleanupBusy
  /\ cleanupPos = 1
  /\ Len(cleanupLog) = 2
  /\ Len(cleanups) = 3
  /\ innerState = "done"

\* C30: when the inner task ends cancelled, the caller gets the
\* cancellation, every cleanup hook runs, and what each hook reads from the
\* error cell is the cancellation (OperationCancelled), not an empty error.
C30_CancellationRelayedAndSeenByHooks ==
  innerOut = TryException(OperationCancelled) =>
    /\ \A k \in DOMAIN cleanupLog :
         /\ cleanupLog[k].seen = OperationCancelled
         /\ cleanupLog[k].seen # NoError
    /\ outcome # NoOutcome =>
         /\ outcome = TryException(OperationCancelled)
         /\ \A i \in HookArgs : TimesRan(i) = 1

C30_Witness ==
  /\ pc = "completed"
  /\ flavor = "SafeTask"
  /\ innerOut = TryException(OperationCancelled)
  /\ outcome = TryException(OperationCancelled)
  /\ Len(cleanupLog) >= 2
  /\ cfg.kIsDebug

\* C25: co_await_result never throws into the awaiting coroutine: awaiting
\* a task that co_returns v gives a result holding v, one that yields
\* co_error(E) a result holding E, one that yields co_cancelled a stopped
\* result; and each await runs the task's body exactly once.
C25_CaptureNeverRaisesAndKeepsOutcome ==
  /\ ~ callerThrew
  /\ (Len(completions) = 1 /\ rpc \in { "reemit", "done" }) =>
       /\ body.stmt = "co_return" => captured = ResultValue(body.arg)
       /\ body.stmt = "co_error" => captured = ResultError(body.arg)
       /\ body.stmt = "co_cancelled" => captured = ResultStopped
  /\ rpc # "off" =>
       numAwaited = awaits
         + (IF rpc \in { "capture", "reemit", "done", "aborted" } THEN 1 ELSE 0)

C25_Witness ==
  /\ rpc = "done"
  /\ wraps = 0
  /\ body.stmt = "co_cancelled"
  /\ captured = ResultStopped
  /\ numAwaited = 2
  /\ awaits = 1

\* C26: a task that does co_yield co_result(co_await co_await_result(t))
\* completes as t completed -- value, error or stopped -- however many such
\* tasks are stacked, and its captured result is the one captured from t.
C26_ReemittedResultIsTheSame ==
  /\ \A k \in DOMAIN completions : completions[k] = completions[1]
  /\ (Len(completions) >= 2 /\ rpc \in { "reemit", "done" }) =>
       /\ body.stmt = "co_return" => captured = ResultValue(body.arg)
       /\ body.stmt = "co_error" => captured = ResultError(body.arg)
       /\ body.stmt = "co_cancelled" => captured = ResultStopped

C26_Witness ==
  /\ rpc = "done"
  /\ Len(completions) = 3
  /\ body = [ stmt |-> "co_error", arg |-> "E2" ]
  /\ completions[3] = TryException("E2")
  /\ captured = ResultError("E2")

\* C27: after co_yield co_cancelled, co_yield co_error(...) or co_yield of a
\* co_result that holds no value, the coroutine is finished: the statement
\* that follows the yield is never executed.
C27_NothingRunsAfterTerminatingYield ==
  /\ reached = 0
  /\ \A k \in DOMAIN completions :
       body.stmt # "co_return" => completions[k].state = "exception"

C27_Witness ==
  /\ rpc = "done"
  /\ body.stmt = "co_cancelled"
  /\ Len(completions) = 2
  /\ completions[2] = TryException(OperationCancelled)
  /\ reached = 0

\* What the outer coro holds when the cleanup fold starts: the value of res,
\* or else the error in the first-error cell.
CapturedBeforeCleanup ==
  IF res.state = "value" THEN async_closure_outer_coro_result(res)
  ELSE TryException(inner_err)

\* C31: while the cleanup hooks run, the captured outcome (res) and the
\* first-error cell (inner_err) do not change, and what the caller is then
\* delivered is the value or error that was captured when the inner task
\* ended, or when token propagation ended, whatever the hooks did.
C31_CleanupLeavesCapturedOutcome ==
  [][ pc = "cleanup" =>
        /\ res' = res
        /\ (pc' = "cleanup" => inner_err' = inner_err)
        /\ (pc' = "completed" => outcome' = CapturedBeforeCleanup) ]_vars

\* Position, among the stored arguments in declaration order, of the first
\* one whose setParentCancelToken throws (one past the end if none does).
FirstTokenFailure ==
  LET Throwers == { k \in DOMAIN ctorLog : binds[ctorLog[k]].tok = "throw" }
  IN IF Throwers = { } THEN Len(ctorLog) + 1
     ELSE CHOOSE k \in Throwers : \A m \in Throwers : k <= m

TokenPropagationOver ==
  /\ hasStorage
  /\ cfg.SetCancelTok
  /\ pc \in { "await_inner", "inner_running", "cleanup", "completed",
              "destroyed" }

\* C35: the cancellation token is delivered to the stored arguments in
\* declaration order and delivery stops at the first setParentCancelToken
\* that fails: no argument after the failing one receives the token, yet the
\* cleanup hook of every stored argument, those after the failing one
\* included, has run once when the closure has completed.
C35_TokensInOrderUntilFirstFailure ==
  TokenPropagationOver =>
    /\ LET WantsToken(a) == binds[a].tok = "ok"
       IN tokLog = SelectSeq(SubSeq(ctorLog, 1, FirstTokenFailure - 1),
                             WantsToken)
    /\ \A k \in DOMAIN ctorLog :
         k >= FirstTokenFailure => Count(tokLog, ctorLog[k]) = 0
    /\ Finished => \A i \in HookArgs : TimesRan(i) = 1

\* Three stored arguments with hooks: the first got the token, the second
\* failed, the third never got it, and all three hooks have run.
C35_Witness ==
  /\ TokenPropagationOver
  /\ Finished
  /\ Len(ctorLog) = 3
  /\ FirstTokenFailure = 2
  /\ binds[ctorLog[3]].tok = "ok"
  /\ tokLog = << ctorLog[1] >>
  /\ \A k \in 1 .. 3 : TimesRan(ctorLog[k]) = 1

\* A step that delivers a cancellation token delivers all of them: it starts
\* with none delivered and ends with propagation over, and neither the inner
\* task nor a cleanup hook has moved.
TokenDeliveryIsOneStep ==
  /\ pc = "propagate"
  /\ tokLog = << >>
  /\ pc' = "await_inner"
  /\ innerState' = innerState
  /\ innerState # "running"
  /\ cleanupLog = << >>
  /\ cleanupLog' = cleanupLog

\* C36 as stated: token propagation is synchronous and non-suspending and
\* belongs to construction, that is, the tokens are delivered in one step
\* and that step comes before the built task is awaited.
C36_PropagationPartOfConstruction ==
  [][ tokLog' # tokLog => TokenDeliveryIsOneStep /\ ~ started ]_vars

\* C36, amended: token propagation is synchronous and non-suspending and is
\* the first step of the awaited outer coro, after construction: the tokens
\* are delivered in one step, so no step of the inner task or of a cleanup
\* hook comes between the first and the last delivery.
C36_PropagationIsOneStepOfAwaitedTask ==
  [][ tokLog' # tokLog => TokenDeliveryIsOneStep /\ started ]_vars

\* Two arguments have just been given the token; the inner task has not
\* started and no hook has run.
C36_Witness ==
  /\ pc = "await_inner"
  /\ started
  /\ Len(tokLog) = 2
  /\ innerState # "running"
  /\ cleanupLog = << >>

\* C37: a closure that was built and then dropped without being awaited has
\* delivered no cancellation token, has not started its inner task and has
\* run no cleanup hook, and its stored arguments have been destroyed, in
\* reverse order of construction.
C37_DiscardedClosureOnlyDestroys ==
  pc = "discarded" =>
    /\ ~ started
    /\ tokLog = << >>
    /\ innerOut = NoOutcome
    /\ innerState = "destroyed"
    /\ cleanupLog = << >>
    /\ outcome = NoOutcome
    /\ (hasStorage => dtorLog = Reverse(ctorLog))

\* A dropped closure with two stored arguments, one of which wanted the
\* token and has a cleanup hook.
C37_Witness ==
  /\ pc = "discarded"
  /\ cfg.SetCancelTok
  /\ Len(ctorLog) = 2
  /\ Len(dtorLog) = 2
  /\ \E i \in HookArgs : binds[i].tok = "ok"

StorageIndexAssigned == pc \notin { "bind", "stored" }

\* C40: the storage index given to argument i is the number of stored
\* arguments before it, so the k-th stored argument in declaration order is
\* bound to slot k-1 and no two stored arguments share a slot; and
\* cumsum_except_last<0, 2, 1, 3> is <0, 2, 3>.
C40_StorageIndexCountsStoredBefore ==
  /\ cumsum_except_last(0, << 2, 1, 3 >>) = << 0, 2, 3 >>
  /\ StorageIndexAssigned =>
       /\ DOMAIN storageIdx = Args
       /\ \A i \in Args :
            storageIdx[i] = Cardinality({ j \in OuterStored : j < i })
       /\ \A i \in OuterStored :
            \A k \in 1 .. Len(binds) :
              Cardinality({ j \in OuterStored : j <= i }) = k
                => innerArgs[i].slot = k - 1
       /\ \A i, j \in OuterStored :
            i # j => innerArgs[i].slot # innerArgs[j].slot

\* A stored argument, then one that is not stored, then a stored one: the
\* indices are 0, 1, 1 and the stored ones sit in slots 0 and 1.
C40_Witness ==
  /\ StorageIndexAssigned
  /\ Len(binds) = 3
  /\ OuterStored = { 1, 3 }
  /\ storageIdx = << 0, 1, 1 >>
  /\ innerArgs[1].slot = 0
  /\ innerArgs[3].slot = 1

\* The aggregate safety of a closure that takes the released task as one of
\* its arguments, next to the arguments of safeties others.
AggregateWithTask(others) == least_safe_alias(Append(others, taskSafety))

\* Argument lists to put next to the task: none, or one of any safety.
OtherArgs == { << >> } \cup { << l >> : l \in Levels }

\* C38: a NowTask measures unsafe whatever the safeties of the arguments and
\* of the inner task it was built from, so every closure that takes it as an
\* argument has an aggregate safety of unsafe and cannot be released as a
\* movable SafeTask, whatever its other arguments and its inner task.
C38_NowTaskIsUnsafeAndBarsRelease ==
  flavor = "NowTask" =>
    /\ taskSafety = unsafe
    /\ \A others \in OtherArgs :
         /\ AggregateWithTask(others) = unsafe
         /\ ~ has_safe_args(AggregateWithTask(others))
         /\ \A is \in Levels : ~ is_safe(AggregateWithTask(others), is)

\* A NowTask built from nothing but maybe_value arguments and a safe inner
\* task, with no outer coro.
C38_Witness ==
  /\ flavor = "NowTask"
  /\ pc = "released"
  /\ Len(binds) = MaxGateArgs
  /\ \A i \in Args : binds[i].safety = maybe_value
  /\ cfg.InnerSafety = maybe_value
  /\ MovedTaskSafety >= closure_min_arg_safety

\* The body hands an empty error to co_error, or to co_result in a Try.
EmptyErrorGiven ==
  body.stmt \in { "co_error", "co_result" } /\ body.arg = NoError

\* Every error a task has completed with, through co_error or through a
\* co_result in the failure state, is a non-empty one.
YieldedErrorsNonEmpty ==
  \A k \in DOMAIN completions :
    completions[k].state = "exception" => completions[k].ex # NoError

CancelledIsErrorOfOperationCancelled ==
  /\ co_cancelled = co_error(OperationCancelled)
  /\ (body.stmt = "co_cancelled" /\ completions # << >>) =>
       completions[1] = TryException(OperationCancelled)

SomeHookIllFormed ==
  \E i \in HookArgs : binds[i].hook \in { "non_void", "not_noexcept" }

\* C32: a cleanup hook that fails never becomes the closure's outcome and is
\* not passed over: once it has failed no other hook runs and the closure
\* completes with nothing, the process being terminated; and a closure with
\* a cleanup hook that is not a noexcept-awaitable void coro is rejected
\* while it is built, so that nothing of it ever runs.
C32_FailingHookIsFatalIllFormedRejected ==
  /\ pc = "terminated" =>
       /\ outcome = NoOutcome
       /\ dtorLog = << >>
       /\ cleanupBusy
       /\ CurrentHook = "throws"
  /\ \A k \in DOMAIN cleanupLog :
       binds[cleanupLog[k].arg].hook = "throws" =>
         /\ k = Len(cleanupLog)
         /\ pc \in { "cleanup", "terminated" }
         /\ cleanupBusy
  /\ Finished => \A i \in HookArgs : binds[i].hook = "ok"
  /\ SomeHookIllFormed =>
       /\ pc \in { "bind", "stored", "inner_made", "ill_formed" }
       /\ cleanups = << >>
       /\ ~ started
  /\ pc = "ill_formed" => SomeHookIllFormed

\* The first hook awaited ran to its end, the second failed: the process is
\* terminated while the inner task's error is held.
C32_Witness ==
  /\ pc = "terminated"
  /\ Len(cleanupLog) = 2
  /\ binds[cleanupLog[1].arg].hook = "ok"
  /\ innerOut.state = "exception"
  /\ outcome = NoOutcome

\* What the hooks and the caller of closure c are to see: the error its own
\* inner task ended with, or none.
OwnError(c) ==
  IF c.innerOut.state = "exception" THEN c.innerOut.ex ELSE NoError

\* Closure c, by itself: its hooks ran in the reverse of the order in which
\* its own arguments were constructed, each saw the error of c's own inner
\* task, c's cell holds that error while the hooks run, and c's caller got
\* the outcome of c's own inner task.
KeepsToItself(c) ==
  /\ LET IsHook(i) == c.binds[i].cleanup
         mine == Reverse(SelectSeq(c.ctorLog, IsHook))
     IN /\ Len(c.cleanupLog) <= Len(mine)
        /\ \A k \in DOMAIN c.cleanupLog : c.cleanupLog[k].arg = mine[k]
  /\ \A k \in DOMAIN c.cleanupLog : c.cleanupLog[k].seen = OwnError(c)
  /\ c.pc = "cleanup" => c.inner_err = OwnError(c)
  /\ c.pc \in { "completed", "destroyed" } =>
       c.outcome = (IF c.innerOut.state = "value"
                    THEN TryValue(c.innerOut.val, FALSE)
                    ELSE c.innerOut)

\* C33: of two independent closures that run interleaved, each keeps its own
\* reverse cleanup order, its own first-error cell and its own outcome: what
\* one of them fails with or cleans up never changes the error that the
\* hooks or the caller of the other one see.
C33_InterleavedClosuresIndependent ==
  other # NoClosure =>
    /\ KeepsToItself(ClosureState)
    /\ KeepsToItself(other)

\* Both closures are in the middle of their cleanup, one after a failure of
\* its inner task and one after a value, each with two hooks.
C33_Witness ==
  /\ other # NoClosure
  /\ pc = "cleanup"
  /\ cleanupBusy
  /\ Len(cleanupLog) = 2
  /\ innerOut = TryException("E1")
  /\ other.pc = "cleanup"
  /\ other.cleanupBusy
  /\ Len(other.cleanupLog) = 1
  /\ Len(other.cleanups) = 2
  /\ other.innerOut.state = "value"

\* The awaited closure is through and its storage is gone.
Released ==
  /\ pc = "destroyed"
  /\ hasStorage => dtorLog = Reverse(ctorLog)

\* C34: an awaited closure whose inner task and cleanup hooks terminate
\* eventually completes, and its storage is released afterwards; and when
\* the inner task is blocked for ever, the closure completes, as cancelled,
\* once cancellation has been requested on the awaiting context.
C34_AwaitedClosureCompletesAndReleases ==
  /\ (started /\ ~ ctx.blocked) ~> Finished
  /\ Finished ~> Released
  /\ (innerState = "running" /\ ctx.blocked /\ ctx.cancelRequested)
       ~> (Finished /\ outcome = TryException(OperationCancelled))

\* A closure with two stored arguments whose inner task was blocked: it was
\* cancelled, ran both hooks and released its storage.
C34_Witness ==
  /\ Released
  /\ ctx.blocked
  /\ ctx.cancelRequested
  /\ outcome = TryException(OperationCancelled)
  /\ Len(dtorLog) = 2
  /\ Len(cleanupLog) = 2

====
